---- MODULE Spec2Model ----
(***************************************************************************)
(* Model of NewSchema (datamodel/high/3.0/schema.go): the concurrent       *)
(* materialization of a high-level Schema from a low-level schema node.    *)
(*                                                                         *)
(* Processes: the calling goroutine (pc), one coordinator goroutine per    *)
(* launched composition slot (cpc), one element worker per slot element    *)
(* (wpc), one property worker per property entry (ppc).  All channels are  *)
(* unbuffered, so a send and its receive are one rendezvous step.          *)
(***************************************************************************)
EXTENDS Integers, Sequences, FiniteSets, TLC

\* ---------------------------------------------------------------- bounds
MaxGoroutines == 5   \* most goroutines one call of NewSchema starts

\* ------------------------------------------------------------- constants
Nil == 0

Slots == {"AllOf", "AnyOf", "OneOf", "Not", "Items"}

SlotNo == [AllOf |-> 1, AnyOf |-> 2, OneOf |-> 3, Not |-> 4, Items |-> 5]

Titles == {"title"}

VARIABLES
  schema,            \* the low-level node handed to NewSchema (read only)
  pc,                \* position of the calling goroutine
  s,                 \* the high-level Schema under construction
  props,             \* the shared map made at line 154
  items,             \* the locals allOf, oneOf, anyOf, not, items (159-163)
  cpc,               \* position of each slot coordinator (buildOutSchema)
  j,                 \* each coordinator's counter j
  wpc,               \* each coordinator's element workers (buildSchemaChild)
  ppc,               \* position of each property worker (buildProps)
  plock,             \* holder of plock, Nil when free
  totalProps,
  totalChildren,
  completedProps,
  completeChildren,
  polySent,          \* history: signals each coordinator delivered on polyCompletedChan
  call,              \* history: which call of NewSchema on this node is running
  first,             \* history: the value the first call returned
  outcome            \* history: how the first call ended

vars == <<schema, pc, s, props, items, cpc, j, wpc, ppc, plock, totalProps,
          totalChildren, completedProps, completeChildren, polySent, call, first, outcome>>

\* ------------------------------------------------------------ the input
\* A value reference of a composition slot: distinct Value and ValueNode
\* for every slot and every index.
ValueReference(sl, i) ==
  [Value |-> 100 * SlotNo[sl] + i, ValueNode |-> 1000 + 100 * SlotNo[sl] + i]

\* The node reference of a slot: key and value node and the element list.
SlotReference(sl, present, n) ==
  [KeyNode   |-> IF present THEN 10 + SlotNo[sl] ELSE Nil,
   ValueNode |-> IF present THEN 20 + SlotNo[sl] ELSE Nil,
   Value     |-> [i \in 1..n |-> ValueReference(sl, i)]]

\* One property entry: the key reference and the value reference.
PropertyEntry(k) ==
  [Key   |-> [Value |-> k, KeyNode |-> 700 + k],
   Value |-> [Value |-> 800 + k, ValueNode |-> 900 + k]]

LowSchema(title, pres, lens, nprops) ==
  [Title      |-> title,
   AllOf      |-> SlotReference("AllOf", pres["AllOf"], lens["AllOf"]),
   AnyOf      |-> SlotReference("AnyOf", pres["AnyOf"], lens["AnyOf"]),
   OneOf      |-> SlotReference("OneOf", pres["OneOf"], lens["OneOf"]),
   Not        |-> SlotReference("Not", pres["Not"], lens["Not"]),
   Items      |-> SlotReference("Items", pres["Items"], lens["Items"]),
   Properties |-> [k \in 1..nprops |-> PropertyEntry(k)]]

\* The goroutines a call on a node with these slots and np property
\* entries starts: one per property entry, one coordinator per slot that
\* carries its nodes, one worker per element.
Goroutines(pres, lens, np) ==
  np + Cardinality({sl \in Slots : pres[sl]})
     + lens["AllOf"] + lens["AnyOf"] + lens["OneOf"] + lens["Not"] + lens["Items"]

\* The nodes NewSchema is called with.  A slot that holds elements carries
\* its nodes; a slot may carry its nodes and hold no element.
Inputs ==
  UNION { UNION { { LowSchema(t, pres, lens, np) :
                      t \in Titles,
                      np \in { n \in 0..MaxGoroutines :
                                Goroutines(pres, lens, n) <= MaxGoroutines } } :
                  pres \in { p \in [Slots -> BOOLEAN] :
                               /\ \A sl \in Slots : lens[sl] > 0 => p[sl]
                               /\ Goroutines(p, lens, 0) <= MaxGoroutines } } :
          lens \in { l \in [Slots -> 0..MaxGoroutines] :
                       l["AllOf"] + l["AnyOf"] + l["OneOf"] + l["Not"] + l["Items"]
                         <= MaxGoroutines } }

WellFormed(sc) ==
  \A sl \in Slots : Len(sc[sl].Value) > 0 => sc[sl].KeyNode # Nil

\* NodeReference.IsEmpty: no key node and no value node.
IsEmpty(ref) == ref.KeyNode = Nil /\ ref.ValueNode = Nil

\* ------------------------------------------------------ pure operators
\* An element worker that stores the value node in the wrong field.
NewChildProxyNodeAsKey(sch) ==
  [Value |-> sch.Value, KeyNode |-> sch.ValueNode, ValueNode |-> Nil]

\* The proxy an element worker builds (lines 117-120).
NewChildProxy(sch) ==
  [Value |-> sch.Value, KeyNode |-> Nil, ValueNode |-> sch.ValueNode]

\* A property worker that drops the key node of its entry.
NewPropProxyNoKey(k, v) ==
  [Value |-> v.Value, KeyNode |-> Nil, ValueNode |-> v.ValueNode]

\* The proxy a property worker builds (lines 144-149).
NewPropProxy(k, v) ==
  [Value |-> v.Value, KeyNode |-> k.KeyNode, ValueNode |-> v.ValueNode]

\* A collection loop that stops one report early.
CollectingOneShort(jv, totalSchemas) == jv < totalSchemas - 1

\* The loop condition of the coordinator's collection loop (line 128).
Collecting(jv, totalSchemas) == jv < totalSchemas

\* len(schema.Properties.Value) (line 183).
TotalProps(sc) == Len(sc.Properties)

\* Line 184.
TotalChildren(sc) ==
  Len(sc.AllOf.Value) + Len(sc.OneOf.Value) + Len(sc.AnyOf.Value)
    + Len(sc.Items.Value) + Len(sc.Not.Value)

\* A barrier guard that forgets the property entries.
NeedBarrierChildrenOnly(tp, tc) == tc > 0

\* A barrier guard that also waits when there is nothing to wait for.
NeedBarrierAlways(tp, tc) == tp + tc >= 0

\* The guard of the barrier (line 185).
NeedBarrier(tp, tc) == tp + tc > 0

\* An exit test satisfied by either count alone.
AllDoneEither(tp, cp, tc, cc) == tp = cp \/ tc = cc

\* The exit test of the barrier loop (lines 191 and 196).
AllDone(tp, cp, tc, cc) == tp = cp /\ tc = cc

\* A launch that hands the AnyOf coordinator the allOf local.
OutVarPasted(sl) == IF sl = "AnyOf" THEN "AllOf" ELSE sl

\* The local whose address the coordinator of slot sl is given
\* (&allOf, &anyOf, &oneOf, &not, &items at lines 166-178).
OutVar(sl) == sl

\* A lock that lets every worker in.
LockIgnored(holder) == TRUE

\* plock.Lock() goes through only while nobody holds plock (line 143).
LockFree(holder) == holder = Nil

\* The Schema allocated at line 54.
EmptySchema ==
  [Title |-> "", AllOf |-> <<>>, AnyOf |-> <<>>, OneOf |-> <<>>,
   Not |-> <<>>, Items |-> <<>>, Properties |-> FALSE]

\* ----------------------------------------------------------------- Init
Fresh ==
  /\ pc = "start"
  /\ s = EmptySchema
  /\ props = <<>>
  /\ items = [sl \in Slots |-> <<>>]
  /\ cpc = [sl \in Slots |-> "idle"]
  /\ j = [sl \in Slots |-> 0]
  /\ wpc = [sl \in Slots |-> <<>>]
  /\ ppc = <<>>
  /\ plock = Nil
  /\ totalProps = 0
  /\ totalChildren = 0
  /\ completedProps = 0
  /\ completeChildren = 0
  /\ polySent = [sl \in Slots |-> 0]

Init ==
  /\ schema \in { sc \in Inputs : WellFormed(sc) }
  /\ Fresh
  /\ call = 1
  /\ first = [schema |-> EmptySchema, properties |-> <<>>]
  /\ outcome = "none"

\* ------------------------------------------------- the calling goroutine
\* Lines 53-185: copy the scalar fields, start one property worker per
\* entry and one coordinator per slot that is not empty, compute the
\* totals, and enter the barrier loop unless both totals are zero.
Launch ==
  /\ pc = "start"
  /\ s' = [s EXCEPT !.Title = schema.Title]
  /\ ppc' = [k \in DOMAIN schema.Properties |-> "lock"]
  /\ cpc' = [sl \in Slots |-> IF ~IsEmpty(schema[sl]) THEN "start" ELSE "idle"]
  /\ totalProps' = TotalProps(schema)
  /\ totalChildren' = TotalChildren(schema)
  /\ pc' = IF NeedBarrier(totalProps', totalChildren') THEN "wait" ELSE "assign"
  /\ UNCHANGED <<schema, props, items, j, wpc, plock, completedProps,
                 completeChildren, polySent, call, first, outcome>>

\* Lines 189-193: receive one signal on polyCompletedChan; the sender is
\* the coordinator of slot sl, blocked at line 135.
RecvPoly(sl) ==
  /\ pc = "wait"
  /\ cpc[sl] = "signal"
  /\ cpc' = [cpc EXCEPT ![sl] = "done"]
  /\ polySent' = [polySent EXCEPT ![sl] = @ + 1]
  /\ completeChildren' = completeChildren + 1
  /\ pc' = IF AllDone(totalProps, completedProps, totalChildren, completeChildren')
             THEN "assign" ELSE "wait"
  /\ UNCHANGED <<schema, s, props, items, j, wpc, ppc, plock, totalProps,
                 totalChildren, completedProps, call, first, outcome>>

\* Lines 194-198: receive one signal on propsChan; the sender is the
\* property worker of key k, blocked at line 151 with the lock held.
RecvProps(k) ==
  /\ pc = "wait"
  /\ k \in DOMAIN ppc
  /\ ppc[k] = "send"
  /\ ppc' = [ppc EXCEPT ![k] = "unlock"]
  /\ completedProps' = completedProps + 1
  /\ pc' = IF AllDone(totalProps, completedProps', totalChildren, completeChildren)
             THEN "assign" ELSE "wait"
  /\ UNCHANGED <<schema, s, props, items, cpc, j, wpc, plock, totalProps,
                 totalChildren, completeChildren, polySent, call, first, outcome>>

\* Lines 202-208: read the five locals into the result and return it.
\* A coordinator that is still collecting appends to its local unordered
\* with this read; the read sees the sequence as it is before or after any
\* such append, according to where this step falls in the interleaving.
Return ==
  /\ pc = "assign"
  /\ s' = [s EXCEPT !.OneOf = items["OneOf"], !.AnyOf = items["AnyOf"],
                    !.AllOf = items["AllOf"], !.Items = items["Items"],
                    !.Not = items["Not"]]
  /\ pc' = "returned"
  /\ UNCHANGED <<schema, props, items, cpc, j, wpc, ppc, plock, totalProps,
                 totalChildren, completedProps, completeChildren, polySent,
                 call, first, outcome>>

\* ------------------------------------------------------ slot coordinator
\* Lines 113-128: make bChan, start one element worker per element, set
\* j to 0 and test the loop condition for the first time.
CoordSpawn(sl) ==
  /\ cpc[sl] = "start"
  /\ wpc' = [wpc EXCEPT ![sl] = [w \in 1..Len(schema[sl].Value) |-> "send"]]
  /\ j' = [j EXCEPT ![sl] = 0]
  /\ cpc' = [cpc EXCEPT ![sl] =
               IF Collecting(0, Len(schema[sl].Value)) THEN "collect" ELSE "signal"]
  /\ UNCHANGED <<schema, pc, s, props, items, ppc, plock, totalProps,
                 totalChildren, completedProps, completeChildren, polySent,
                 call, first, outcome>>

\* Lines 116-122 and 128-133: worker w of slot sl hands its proxy over
\* bChan; the coordinator counts it and appends it to the slot's output.
CoordRecv(sl, w) ==
  /\ cpc[sl] = "collect"
  /\ w \in DOMAIN wpc[sl]
  /\ wpc[sl][w] = "send"
  /\ wpc' = [wpc EXCEPT ![sl][w] = "done"]
  /\ j' = [j EXCEPT ![sl] = @ + 1]
  /\ items' = [items EXCEPT ![OutVar(sl)] =
                 Append(@, NewChildProxy(schema[sl].Value[w]))]
  /\ cpc' = [cpc EXCEPT ![sl] =
               IF Collecting(j'[sl], Len(schema[sl].Value)) THEN "collect" ELSE "signal"]
  /\ UNCHANGED <<schema, pc, s, props, ppc, plock, totalProps, totalChildren,
                 completedProps, completeChildren, polySent, call, first, outcome>>

\* ------------------------------------------------------- property worker
\* Lines 143-150: take the lock, insert the entry into the shared map and
\* point the result's Properties at the map.
PropInsert(k) ==
  /\ k \in DOMAIN ppc
  /\ ppc[k] = "lock"
  /\ LockFree(plock)
  /\ plock' = k
  /\ props' = (schema.Properties[k].Key.Value :>
                 NewPropProxy(schema.Properties[k].Key, schema.Properties[k].Value))
              @@ props
  /\ s' = [s EXCEPT !.Properties = TRUE]
  /\ ppc' = [ppc EXCEPT ![k] = "send"]
  /\ UNCHANGED <<schema, pc, items, cpc, j, wpc, totalProps, totalChildren,
                 completedProps, completeChildren, polySent, call, first, outcome>>

\* Line 142, deferred: release the lock once the send at line 151 is over.
PropUnlock(k) ==
  /\ k \in DOMAIN ppc
  /\ ppc[k] = "unlock"
  /\ plock' = Nil
  /\ ppc' = [ppc EXCEPT ![k] = "done"]
  /\ UNCHANGED <<schema, pc, s, props, items, cpc, j, wpc, totalProps,
                 totalChildren, completedProps, completeChildren, polySent,
                 call, first, outcome>>

\* ------------------------------------------------------- a second call
\* The value NewSchema hands back: the Schema and, through its Properties
\* field, the contents of the shared map.
Result == [schema |-> s, properties |-> IF s.Properties THEN props ELSE <<>>]

\* The state a call of NewSchema starts from (lines 53-54 and the fresh
\* channels, lock, map and locals of lines 106-163).
Restart ==
  /\ pc' = "start"
  /\ s' = EmptySchema
  /\ props' = <<>>
  /\ items' = [sl \in Slots |-> <<>>]
  /\ cpc' = [sl \in Slots |-> "idle"]
  /\ j' = [sl \in Slots |-> 0]
  /\ wpc' = [sl \in Slots |-> <<>>]
  /\ ppc' = <<>>
  /\ plock' = Nil
  /\ totalProps' = 0
  /\ totalChildren' = 0
  /\ completedProps' = 0
  /\ completeChildren' = 0
  /\ polySent' = [sl \in Slots |-> 0]

\* The caller keeps the returned value and calls NewSchema again on the
\* same node (lines 53-54).  The second call has its own channels, lock,
\* map and locals; goroutines left over from the first call can reach
\* none of them, nor the elements the first value already holds.
CallAgain ==
  /\ pc = "returned"
  /\ call = 1
  /\ call' = 2
  /\ first' = Result
  /\ Restart
  /\ UNCHANGED <<schema, outcome>>

\* ------------------------------------------------------- specifications
Next ==
  \/ Launch
  \/ \E sl \in Slots : RecvPoly(sl)
  \/ \E k \in DOMAIN ppc : RecvProps(k)
  \/ Return
  \/ \E sl \in Slots : CoordSpawn(sl)
  \/ \E sl \in Slots : \E w \in DOMAIN wpc[sl] : CoordRecv(sl, w)
  \/ \E k \in DOMAIN ppc : PropInsert(k)
  \/ \E k \in DOMAIN ppc : PropUnlock(k)

Spec == Init /\ [][Next]_vars

\* Every goroutine that can run is eventually run.
FairSpec == Spec /\ WF_vars(Next)

\* Two calls of NewSchema on the same node, one after the other.
NextTwice == Next \/ CallAgain

TwiceSpec == Init /\ [][NextTwice]_vars

\* The call has come to rest without returning: the calling goroutine sits
\* in the select of lines 188-199 and no goroutine can take a step.
Blocked == pc = "wait" /\ ~ENABLED Next

\* Once the first call has ended, by returning or by blocking for good,
\* NewSchema is called again on the same node (from another goroutine when
\* the first caller is blocked) and how the first call ended is recorded.
CallAfterEnd ==
  /\ call = 1
  /\ pc = "returned" \/ Blocked
  /\ call' = 2
  /\ outcome' = IF pc = "returned" THEN "returned" ELSE "blocked"
  /\ Restart
  /\ UNCHANGED <<schema, first>>

\* Two complete executions of NewSchema on the same node.
NextReplay == Next \/ CallAfterEnd

ReplaySpec == Init /\ [][NextReplay]_vars

\* ---------------------------------------------------- shared vocabulary
TypeOK ==
  /\ pc \in {"start", "wait", "assign", "returned"}
  /\ \A sl \in Slots : cpc[sl] \in {"idle", "start", "collect", "signal", "done"}
  /\ \A sl \in Slots : \A w \in DOMAIN wpc[sl] : wpc[sl][w] \in {"send", "done"}
  /\ \A k \in DOMAIN ppc : ppc[k] \in {"lock", "send", "unlock", "done"}
  /\ plock \in 0..MaxGoroutines
  /\ call \in 1..2

Returned == pc = "returned"

\* The slot's coordinator was started (the guards at lines 165-178).
Launched(sl) == ~IsEmpty(schema[sl])

\* Proxy p wraps the low-level value reference ref.
Wraps(p, ref) == p.Value = ref.Value /\ p.ValueNode = ref.ValueNode

\* Signals the caller has taken from the two completion channels.
Received == completeChildren + completedProps

\* ------------------------------------------------------------------- C1
\* C1: NewSchema terminates: for every input, under fair scheduling of all
\* goroutines, the call eventually leaves the barrier loop and returns.
C1_Terminates == <>Returned

\* ------------------------------------------------------------------- C2
\* C2: order preservation: in the returned Schema, for every composition
\* slot and every index i, the proxy at output[i] wraps the reference at
\* input[i], whatever the completion order of the element workers.
C2_OrderPreserved ==
  Returned =>
    \A sl \in Slots : \A i \in 1..Len(s[sl]) :
      /\ i <= Len(schema[sl].Value)
      /\ Wraps(s[sl][i], schema[sl].Value[i])

\* ------------------------------------------------------------------- C3
\* One signal per launched coordinator and one per property entry.
ExpectedSignals ==
  Cardinality({sl \in Slots : Launched(sl)}) + Len(schema.Properties)

\* C3: barrier expected count: the caller is released exactly when the
\* number of signals received equals the number of launched slot
\* coordinators plus the number of property entries: while it waits the
\* count is below that number, and once released the count equals it.
C3_BarrierExpectedCount ==
  /\ pc = "wait" => Received < ExpectedSignals
  /\ pc \in {"assign", "returned"} => Received = ExpectedSignals

\* ------------------------------------------------------------------- C4
\* C4: cardinality: whenever NewSchema has returned, each of the five
\* composition fields of the result has exactly as many elements as the
\* slot has input elements.
C4_Cardinality ==
  Returned => \A sl \in Slots : Len(s[sl]) = Len(schema[sl].Value)

\* ------------------------------------------------------------------- C5
\* C5: key integrity: whenever NewSchema has returned, the Properties
\* mapping of the result has exactly one entry per input key, and the entry
\* of key k is a proxy holding the value, the value node and the key node
\* the input associates with k.
C5_KeyIntegrity ==
  Returned =>
    LET out == Result.properties
        K == Len(schema.Properties)
    IN /\ Cardinality(DOMAIN out) = K
       /\ \A e \in 1..K :
            LET entry == schema.Properties[e]
            IN /\ entry.Key.Value \in DOMAIN out
               /\ out[entry.Key.Value].Value = entry.Value.Value
               /\ out[entry.Key.Value].ValueNode = entry.Value.ValueNode
               /\ out[entry.Key.Value].KeyNode = entry.Key.KeyNode

\* A call with at least two property entries has returned, after both
\* workers inserted and signalled.
C5_Witness ==
  /\ Returned
  /\ Len(schema.Properties) >= 2
  /\ completedProps = Len(schema.Properties)
  /\ Cardinality(DOMAIN props) >= 2

\* ------------------------------------------------------------------- C6
\* The coordinator of slot sl still has an element to append (line 132).
PendingSlotWrite(sl) ==
  cpc[sl] \in {"start", "collect"} /\ Len(items[sl]) < Len(schema[sl].Value)

\* The worker of key k still has its entry to insert (lines 144-150).
PendingPropWrite(k) == ppc[k] = "lock"

\* C6: full population before return: once the caller has left the barrier
\* (it is about to read the slot sequences, or has returned), no launched
\* coordinator still has an element to append and no property worker still
\* has its entry to insert.
C6_PopulatedBeforeReturn ==
  pc \in {"assign", "returned"} =>
    /\ \A sl \in Slots : ~PendingSlotWrite(sl)
    /\ \A k \in DOMAIN ppc : ~PendingPropWrite(k)

\* ------------------------------------------------------------------- C7
\* C7: no task leak: in every state in which NewSchema has returned, every
\* goroutine it started has run to completion.
C7_NoTaskLeak ==
  Returned =>
    /\ \A sl \in Slots : Launched(sl) => cpc[sl] = "done"
    /\ \A sl \in Slots : \A w \in DOMAIN wpc[sl] : wpc[sl][w] = "done"
    /\ \A k \in DOMAIN ppc : ppc[k] = "done"

\* ------------------------------------------------------------------- C8
EmptyInput ==
  /\ Len(schema.Properties) = 0
  /\ \A sl \in Slots : Len(schema[sl].Value) = 0

\* On an empty input the caller is never inside the barrier loop, has taken
\* no signal, and what it returns is empty.
EmptyInputSafe ==
  EmptyInput =>
    /\ pc # "wait"
    /\ Received = 0
    /\ Returned => /\ \A sl \in Slots : s[sl] = <<>>
                   /\ Cardinality(DOMAIN Result.properties) = 0

\* C8: empty input: when the input has no property entry and no element in
\* any of the five slots, NewSchema never enters the barrier loop, takes no
\* signal, and returns a Schema whose five composition fields are empty and
\* whose property mapping has no entries.
C8_EmptyInput == []EmptyInputSafe /\ (EmptyInput ~> Returned)

\* An empty input has been materialized and returned.
C8_Witness == EmptyInput /\ Returned /\ s.Title = schema.Title

\* ------------------------------------------------------------------- C9
\* C9: idempotence: two calls of NewSchema on the same node return
\* structurally equal values, whatever the two interleavings.
C9_Idempotent == (call = 2 /\ Returned) => Result = first

\* ------------------------------------------------------------------ C10
WorkersDone(sl) == Cardinality({w \in DOMAIN wpc[sl] : wpc[sl][w] = "done"})

\* What a coordinator has launched, collected and signalled so far.
CoordinatorSafe ==
  \A sl \in Slots :
    LET N == Len(schema[sl].Value)
    IN /\ cpc[sl] \in {"idle", "start"} => Len(wpc[sl]) = 0
       /\ cpc[sl] \in {"collect", "signal", "done"} => Len(wpc[sl]) = N
       /\ j[sl] <= N
       /\ j[sl] = WorkersDone(sl)
       /\ Len(items[sl]) = j[sl]
       /\ cpc[sl] \in {"signal", "done"} => j[sl] = N
       /\ polySent[sl] = (IF cpc[sl] = "done" THEN 1 ELSE 0)

\* Every launched coordinator has reached its send at line 135.
CoordinatorsAtSend ==
  \A sl \in Slots : Launched(sl) => cpc[sl] \in {"signal", "done"}

\* C10: slot coordinator protocol: the coordinator of a slot with N
\* elements launches exactly N element workers, takes exactly one report
\* from each, and only after the N-th report reaches its one send on the
\* completion channel, which it does eventually; it delivers at most one
\* signal, never one per element and never before all N reports are in.
C10_CoordinatorProtocol == []CoordinatorSafe /\ <>CoordinatorsAtSend

\* A coordinator with two or more elements has collected every report and
\* delivered its signal.
C10_Witness ==
  \E sl \in Slots :
    /\ Len(schema[sl].Value) >= 2
    /\ WorkersDone(sl) = Len(schema[sl].Value)
    /\ polySent[sl] = 1

\* ------------------------------------------------------------------ C11
\* Worker k is between plock.Lock() and plock.Unlock().
InCritical(k) == ppc[k] \in {"send", "unlock"}

\* At most one worker is inside, and it is the one plock names.
MutexSafe ==
  /\ Cardinality({k \in DOMAIN ppc : InCritical(k)}) <= 1
  /\ \A k \in DOMAIN ppc : InCritical(k) <=> plock = k

\* A step that changes the shared map is a worker taking the free lock, and
\* is no step of the calling goroutine.
MapWrittenUnderLock ==
  props' # props =>
    /\ plock = Nil
    /\ plock' \in DOMAIN ppc
    /\ UNCHANGED <<pc, completedProps, completeChildren>>

\* C11: mutual exclusion on the property mapping: in every reachable state
\* at most one property worker is between acquiring and releasing the lock,
\* so no two workers insert into the shared mapping at once, and the calling
\* goroutine never writes the mapping while a worker holds the lock.
C11_MutualExclusion == []MutexSafe /\ [][MapWrittenUnderLock]_vars

\* One worker holds the lock after inserting while another waits for it.
C11_Witness ==
  \E k1 \in DOMAIN ppc : \E k2 \in DOMAIN ppc :
    /\ k1 # k2
    /\ InCritical(k1)
    /\ ppc[k2] = "lock"
    /\ Cardinality(DOMAIN props) = 1

\* ------------------------------------------------------------------ C12
\* Property worker k cannot take its next step because another property
\* worker holds the lock it asks for at line 143.
BlockedOnWorker(k) == ppc[k] = "lock" /\ plock # Nil

\* C12: workers never block on each other: there is no reachable state in
\* which a property worker cannot proceed because another property worker
\* holds the lock, and an element worker that has not yet reported is held
\* up by nothing but its own coordinator, which is ready to receive.
C12_WorkersNeverBlock ==
  /\ \A k \in DOMAIN ppc : ~BlockedOnWorker(k)
  /\ \A sl \in Slots : \A w \in DOMAIN wpc[sl] :
       wpc[sl][w] = "send" => cpc[sl] = "collect"

\* ------------------------------------------------------------------ C13
\* A step of the coordinator or of an element worker of slot sl.
SlotStep(sl) == cpc'[sl] # cpc[sl] \/ wpc'[sl] # wpc[sl]

\* What one step may write: a slot's output changes only in a collecting
\* step of that slot's own coordinator; a step of one slot leaves the other
\* four outputs and the shared map alone; a step of a property worker
\* leaves all five outputs alone.
SlotFrame ==
  /\ \A sl \in Slots :
       items'[sl] # items[sl] =>
         /\ cpc[sl] = "collect"
         /\ j'[sl] = j[sl] + 1
  /\ \A sl \in Slots :
       SlotStep(sl) =>
         /\ \A o \in Slots \ {sl} : items'[o] = items[o]
         /\ props' = props
  /\ (ppc' # ppc \/ plock' # plock \/ props' # props) => items' = items

\* C13: slot independence: each composition slot's output sequence is
\* written only by that slot's own coordinator; every step of a coordinator
\* or element worker of one slot leaves the output sequences of the other
\* four slots and the shared property mapping unchanged, and every step of
\* a property worker leaves all five slot output sequences unchanged.
C13_SlotIndependence == [][SlotFrame]_vars

\* Two slots have collected elements and a property has been inserted.
C13_Witness ==
  /\ \E a \in Slots : \E b \in Slots :
       a # b /\ Len(items[a]) > 0 /\ Len(items[b]) > 0
  /\ Cardinality(DOMAIN props) > 0

\* ------------------------------------------------------------------ C14
\* The positions of slot sl's output that wrap its i-th input element.
PositionsOf(sl, i) ==
  {p \in 1..Len(items[sl]) : Wraps(items[sl][p], schema[sl].Value[i])}

\* C14: slot output is a permutation of the input: once a slot coordinator
\* has reached its completion signal (offered or delivered), its output
\* sequence holds, for every input element of that slot, exactly one proxy
\* wrapping that element's value and value node, and nothing else, whatever
\* the arrival order of the workers.
C14_OutputIsPermutation ==
  \A sl \in Slots :
    cpc[sl] \in {"signal", "done"} =>
      /\ Len(items[sl]) = Len(schema[sl].Value)
      /\ \A i \in 1..Len(schema[sl].Value) : Cardinality(PositionsOf(sl, i)) = 1

\* A coordinator has delivered its signal for a slot of two or more
\* elements whose workers reported out of input order.
C14_Witness ==
  \E sl \in Slots :
    /\ Len(schema[sl].Value) >= 2
    /\ polySent[sl] = 1
    /\ Wraps(items[sl][1], schema[sl].Value[2])

\* ------------------------------------------------------------------ C15
\* The number of composition elements of the input, over all five slots.
ElementTotal ==
  Len(schema.AllOf.Value) + Len(schema.OneOf.Value) + Len(schema.AnyOf.Value)
    + Len(schema.Items.Value) + Len(schema.Not.Value)

\* The step in which the calling goroutine leaves the barrier loop.
LeavesBarrier == pc = "wait" /\ pc' # "wait"

\* C15: return condition of the barrier as coded: NewSchema leaves the
\* barrier loop only in a step that receives one signal, and only into a
\* state where the signals received on the property channel equal the
\* number of property entries and the signals received on the polymorphic
\* completion channel equal the number of composition elements summed over
\* the five slots.
C15_BarrierExitAsCoded ==
  [][LeavesBarrier =>
       /\ pc' = "assign"
       /\ completedProps' + completeChildren' = Received + 1
       /\ completedProps' = Len(schema.Properties)
       /\ completeChildren' = ElementTotal]_vars

\* The barrier was entered and left after signals of both kinds.
C15_Witness ==
  /\ Returned
  /\ completedProps >= 1
  /\ completeChildren >= 1

\* ------------------------------------------------------------------ C16
\* The input has property entries and no composition slot.
PropsOnly ==
  /\ Len(schema.Properties) >= 1
  /\ \A sl \in Slots : IsEmpty(schema[sl])

\* Every property worker has inserted, signalled and released the lock.
PropWorkersFinished ==
  /\ DOMAIN ppc = DOMAIN schema.Properties
  /\ \A k \in DOMAIN ppc : ppc[k] = "done"
  /\ Cardinality(DOMAIN props) = Len(schema.Properties)
  /\ plock = Nil

\* NewSchema has returned, on the property signals alone.
ReturnedOnPropSignals ==
  /\ Returned
  /\ completedProps = Len(schema.Properties)
  /\ completeChildren = 0

\* C16: property workers cannot deadlock: for an input with K >= 1 property
\* entries and no composition slot, under fair scheduling every property
\* worker eventually acquires the lock, inserts its entry, delivers its
\* signal and releases the lock, and NewSchema returns after exactly K
\* property signals.
C16_PropWorkersFinish ==
  /\ PropsOnly ~> (PropWorkersFinished /\ ReturnedOnPropSignals)
  /\ [](PropsOnly /\ Returned => ReturnedOnPropSignals)

\* A call with two or more property entries and no slot has returned and
\* all its workers are through.
C16_Witness ==
  /\ PropsOnly
  /\ Len(schema.Properties) >= 2
  /\ PropWorkersFinished
  /\ ReturnedOnPropSignals

\* ------------------------------------------------------------------ C17
\* C17: termination does not depend on scheduling: for any fixed input,
\* either every fair execution of NewSchema returns or none does; a second
\* complete execution on the same node ends the way the first one did.
C17_SchedulingIndependent ==
  (call = 2 /\ (Returned \/ Blocked)) => (Returned <=> outcome = "returned")
====
